---- MODULE Spec2Model ----
(***************************************************************************)
(* Model of src/codigo.py: the AVL tree ArvoreAVL over nodes No.           *)
(* Nodes are heap objects with identity (Python references); the tree is   *)
(* the heap plus the root reference self.raiz.  Every public method is one *)
(* action, the recursive helpers are RECURSIVE operators that thread the   *)
(* heap.  A Python exception (attribute access on None) is the flag e of   *)
(* the helper's result; the heap mutations made before it stay.            *)
(***************************************************************************)
EXTENDS Integers, FiniteSets, Sequences, TLC

(* ---- bounds ---- *)
(* most nodes a tree gets: insere is not called on a tree that large *)
MaxNodes == 4
(* the same, for the runs of SpecFundo *)
MaxNodesFundo == 6
MaxKey == 3
(* nodes and keys of the runs of SpecK *)
MaxNodesK == 3
MaxKeyK == 2
(* insertions alone, deep enough for the height bound to separate from the *)
(* balance bound                                                           *)
MaxNodesAlt == 9
MaxKeyAlt == 3
(* pairwise distinct keys *)
MaxNodesDist == 5
MaxKeyDist == 5
(* pairwise distinct keys, with removals *)
MaxNodesRem == 4
MaxKeyRem == 4
(* the rotations called on their own *)
MaxNodesRot == 4
MaxKeyRot == 2

Max(a, b) == IF a >= b THEN a ELSE b

(* the heap cells *)
MaxHeap ==
    Max(Max(Max(MaxNodes, MaxNodesAlt), Max(MaxNodesFundo, MaxNodesK)),
        Max(Max(MaxNodesRot, MaxNodesDist), MaxNodesRem))
Nodes == 1..MaxHeap
Keys == 1..MaxKey
KArgs == (-1)..(MaxNodes + 1)
KeysK == 1..MaxKeyK
KArgsK == (-1)..(MaxNodesK + 1)
KeysAlt == 1..MaxKeyAlt
KeysRot == 1..MaxKeyRot
KeysDist == 1..MaxKeyDist
KeysRem == 1..MaxKeyRem

(* None, for references and for key results *)
NULL == 0
None == 0

VARIABLES heap, raiz, contador, resultado, erro, excecao, op, arg, ret, antes, presentes, limite

vars == <<heap, raiz, contador, resultado, erro, excecao, op, arg, ret, antes, presentes, limite>>

(* a heap cell not (or no longer) holding an object *)
Livre == [chave |-> 0, esquerda |-> NULL, direita |-> NULL, altura_atributo |-> 0]

(* No(chave): esquerda = None, direita = None, altura_atributo = 1 *)
No(chave) == [chave |-> chave, esquerda |-> NULL, direita |-> NULL, altura_atributo |-> 1]

(* result of a helper: heap after it, returned reference, raised or not,   *)
(* and the function whose line raised                                      *)
Ret(h, r) == [h |-> h, r |-> r, e |-> FALSE, onde |-> ""]
Raise(h, onde) == [h |-> h, r |-> NULL, e |-> TRUE, onde |-> onde]

(* objects reachable from reference no; the rest is garbage *)
RECURSIVE Alcance(_, _)
Alcance(h, no) ==
    IF no = NULL THEN {}
    ELSE {no} \cup Alcance(h, h[no].esquerda) \cup Alcance(h, h[no].direita)

(* garbage collection: cells unreachable from the root are freed *)
Coleta(h, r) ==
    LET vivos == Alcance(h, r)
    IN  [n \in Nodes |-> IF n \in vivos THEN h[n] ELSE Livre]

(* the cell a new No object gets *)
NovoNo(h, r) ==
    LET livres == Nodes \ Alcance(h, r)
    IN  CHOOSE n \in livres : \A m \in livres : n <= m

(* References are opaque: a state is kept up to renaming of the references.  *)
(* PreOrdem lists the objects of a tree root first, then left, then right.  *)
RECURSIVE PreOrdem(_, _)
PreOrdem(h, no) ==
    IF no = NULL THEN <<>>
    ELSE <<no>> \o PreOrdem(h, h[no].esquerda) \o PreOrdem(h, h[no].direita)

RECURSIVE EmOrdemCrescente(_)
EmOrdemCrescente(S) ==
    IF S = {} THEN <<>>
    ELSE LET n == CHOOSE x \in S : \A y \in S : x <= y
         IN  <<n>> \o EmOrdemCrescente(S \ {n})

(* the renaming that numbers the objects of the tree at r in pre-order *)
Renomeia(h, r) ==
    LET ordem == PreOrdem(h, r) \o EmOrdemCrescente(Nodes \ Alcance(h, r))
    IN  [n \in 0..MaxHeap |-> IF n = NULL THEN NULL ELSE CHOOSE m \in Nodes : ordem[m] = n]

(* heap h under the renaming pi *)
Renomeado(h, pi) ==
    [m \in Nodes |->
        LET n == CHOOSE x \in Nodes : pi[x] = m
        IN  [chave |-> h[n].chave, esquerda |-> pi[h[n].esquerda],
             direita |-> pi[h[n].direita], altura_atributo |-> h[n].altura_atributo]]

RECURSIVE altura(_, _)
altura(h, no) ==
    IF no = NULL THEN -1
    ELSE 1 + Max(altura(h, h[no].esquerda), altura(h, h[no].direita))

fator_balanceamento(h, no) ==
    IF no = NULL THEN 0
    ELSE altura(h, h[no].esquerda) - altura(h, h[no].direita)

rotacao_direita(h, no_raiz) ==
    LET no_centro == h[no_raiz].esquerda
    IN  IF no_centro = NULL THEN Raise(h, "rotacao_direita")
        ELSE LET no_aux == h[no_centro].direita
                 h1 == [h EXCEPT ![no_centro].direita = no_raiz]
                 h2 == [h1 EXCEPT ![no_raiz].esquerda = no_aux]
                 h3 == [h2 EXCEPT ![no_raiz].altura_atributo =
                           1 + Max(altura(h2, h2[no_raiz].esquerda), altura(h2, h2[no_raiz].direita))]
                 h4 == [h3 EXCEPT ![no_centro].altura_atributo =
                           1 + Max(altura(h3, h3[no_centro].esquerda), altura(h3, h3[no_centro].direita))]
             IN  Ret(h4, no_centro)

(* rotacao_esquerda with line 142 handing no subtree over to no_raiz *)
rotacao_esquerda_sem_aux(h, no_raiz) ==
    LET no_centro == h[no_raiz].direita
    IN  IF no_centro = NULL THEN Raise(h, "rotacao_esquerda")
        ELSE LET h1 == [h EXCEPT ![no_centro].esquerda = no_raiz]
                 h2 == [h1 EXCEPT ![no_raiz].direita = NULL]
                 h3 == [h2 EXCEPT ![no_raiz].altura_atributo =
                           1 + Max(altura(h2, h2[no_raiz].esquerda), altura(h2, h2[no_raiz].direita))]
                 h4 == [h3 EXCEPT ![no_centro].altura_atributo =
                           1 + Max(altura(h3, h3[no_centro].esquerda), altura(h3, h3[no_centro].direita))]
             IN  Ret(h4, no_centro)

rotacao_esquerda(h, no_raiz) ==
    LET no_centro == h[no_raiz].direita
    IN  IF no_centro = NULL THEN Raise(h, "rotacao_esquerda")
        ELSE LET no_aux == h[no_centro].esquerda
                 h1 == [h EXCEPT ![no_centro].esquerda = no_raiz]
                 h2 == [h1 EXCEPT ![no_raiz].direita = no_aux]
                 h3 == [h2 EXCEPT ![no_raiz].altura_atributo =
                           1 + Max(altura(h2, h2[no_raiz].esquerda), altura(h2, h2[no_raiz].direita))]
                 h4 == [h3 EXCEPT ![no_centro].altura_atributo =
                           1 + Max(altura(h3, h3[no_centro].esquerda), altura(h3, h3[no_centro].direita))]
             IN  Ret(h4, no_centro)

(* no.esquerda = rotacao_esquerda(no.esquerda); return rotacao_direita(no) *)
DuplaDireita(h, no) ==
    LET r1 == rotacao_esquerda(h, h[no].esquerda)
    IN  IF r1.e THEN r1
        ELSE rotacao_direita([r1.h EXCEPT ![no].esquerda = r1.r], no)

(* no.direita = rotacao_direita(no.direita); return rotacao_esquerda(no) *)
DuplaEsquerda(h, no) ==
    LET r1 == rotacao_direita(h, h[no].direita)
    IN  IF r1.e THEN r1
        ELSE rotacao_esquerda([r1.h EXCEPT ![no].direita = r1.r], no)

(* the tail of _insere without lines 192-204: the height is updated and no *)
(* rotation is made                                                        *)
InsereSemRotacao(h1, no, chave) ==
    Ret([h1 EXCEPT ![no].altura_atributo =
            1 + Max(altura(h1, h1[no].esquerda), altura(h1, h1[no].direita))], no)

(* the rebalancing tail of _insere, after the recursive call returned *)
InsereRebalanceia(h1, no, chave) ==
    LET h2 == [h1 EXCEPT ![no].altura_atributo =
                  1 + Max(altura(h1, h1[no].esquerda), altura(h1, h1[no].direita))]
        balanceamento == fator_balanceamento(h2, no)
    IN  IF balanceamento > 1 THEN
            IF h2[no].esquerda = NULL THEN Raise(h2, "_insere")
            ELSE IF chave < h2[h2[no].esquerda].chave THEN rotacao_direita(h2, no)
            ELSE DuplaDireita(h2, no)
        ELSE IF balanceamento < -1 THEN
            IF h2[no].direita = NULL THEN Raise(h2, "_insere")
            ELSE IF chave > h2[h2[no].direita].chave THEN rotacao_esquerda(h2, no)
            ELSE DuplaEsquerda(h2, no)
        ELSE Ret(h2, no)

RECURSIVE _insere(_, _, _, _)
_insere(h, no, chave, novo) ==
    IF no = NULL THEN Ret([h EXCEPT ![novo] = No(chave)], novo)
    ELSE IF chave < h[no].chave THEN
        LET sub == _insere(h, h[no].esquerda, chave, novo)
        IN  IF sub.e THEN sub
            ELSE InsereRebalanceia([sub.h EXCEPT ![no].esquerda = sub.r], no, chave)
    ELSE
        LET sub == _insere(h, h[no].direita, chave, novo)
        IN  IF sub.e THEN sub
            ELSE InsereRebalanceia([sub.h EXCEPT ![no].direita = sub.r], no, chave)

(* snapshot of the tree, taken when a public call starts *)
Foto == [raiz |-> raiz, heap |-> heap]

(* the tree after a mutating call: root nova_raiz, heap h collected, and the *)
(* snapshot of the tree before the call, both under the same renaming        *)
Resultado(h, nova_raiz) ==
    LET c == Coleta(h, nova_raiz)
        pi == Renomeia(c, nova_raiz)
    IN  /\ raiz' = pi[nova_raiz]
        /\ heap' = Renomeado(c, pi)
        /\ antes' = [raiz |-> pi[raiz], heap |-> Renomeado(heap, pi)]

insere(chave) ==
    /\ ~erro
    /\ Cardinality(Alcance(heap, raiz)) < limite
    /\ LET res == _insere(heap, raiz, chave, NovoNo(heap, raiz))
           nova_raiz == IF res.e THEN raiz ELSE res.r
       IN  /\ Resultado(res.h, nova_raiz)
           /\ erro' = res.e
           /\ excecao' = res.onde
    /\ op' = "insere"
    /\ arg' = chave
    /\ ret' = None
    /\ presentes' = presentes \cup {chave}
    /\ UNCHANGED <<contador, resultado, limite>>

(* the caller of a rotation stores the returned node where no_raiz was:    *)
(* in the link of its parent (lines 196, 203) or in self.raiz (line 173)   *)
Religa(h, h0, no_raiz, devolvido) ==
    [m \in Nodes |->
        IF h0[m].esquerda = no_raiz THEN [h[m] EXCEPT !.esquerda = devolvido]
        ELSE IF h0[m].direita = no_raiz THEN [h[m] EXCEPT !.direita = devolvido]
        ELSE h[m]]

(* the public rotation called on the node no of the tree; res is what the  *)
(* rotation returned                                                       *)
Rotaciona(nome, no, res) ==
    /\ LET h1 == IF res.e THEN res.h ELSE Religa(res.h, heap, no, res.r)
           nova_raiz == IF ~res.e /\ no = raiz THEN res.r ELSE raiz
           pi == Renomeia(Coleta(h1, nova_raiz), nova_raiz)
       IN  /\ Resultado(h1, nova_raiz)
           /\ arg' = pi[no]
           /\ ret' = pi[res.r]
    /\ erro' = res.e
    /\ excecao' = res.onde
    /\ op' = nome
    /\ UNCHANGED <<contador, resultado, presentes, limite>>

chama_rotacao_direita(no) ==
    /\ ~erro
    /\ no \in Alcance(heap, raiz)
    /\ Rotaciona("rotacao_direita", no, rotacao_direita(heap, no))

chama_rotacao_esquerda(no) ==
    /\ ~erro
    /\ no \in Alcance(heap, raiz)
    /\ Rotaciona("rotacao_esquerda", no, rotacao_esquerda(heap, no))

RECURSIVE __minimo(_, _)
__minimo(h, no) ==
    IF h[no].esquerda /= NULL THEN __minimo(h, h[no].esquerda) ELSE no

(* the while loop of __sucessor: descent from the root towards no.chave *)
RECURSIVE SucessorDescida(_, _, _, _)
SucessorDescida(h, no, atual, sucessor) ==
    IF atual = NULL THEN sucessor
    ELSE IF h[no].chave < h[atual].chave THEN SucessorDescida(h, no, h[atual].esquerda, atual)
    ELSE IF h[no].chave > h[atual].chave THEN SucessorDescida(h, no, h[atual].direita, sucessor)
    ELSE sucessor

(* r0 is self.raiz, which remove only reassigns when _remove has returned *)
__sucessor(h, r0, no) ==
    IF no = NULL THEN NULL
    ELSE IF h[no].direita /= NULL THEN __minimo(h, h[no].direita)
    ELSE SucessorDescida(h, no, r0, NULL)

(* the tail of _remove without lines 259-271: the height is updated and no *)
(* rotation is made                                                        *)
RemoveSemRotacao(h1, no) ==
    Ret([h1 EXCEPT ![no].altura_atributo =
            1 + Max(altura(h1, h1[no].esquerda), altura(h1, h1[no].direita))], no)

(* the rebalancing tail of _remove, after the recursive call returned *)
RemoveRebalanceia(h1, no) ==
    LET h2 == [h1 EXCEPT ![no].altura_atributo =
                  1 + Max(altura(h1, h1[no].esquerda), altura(h1, h1[no].direita))]
        balanceamento == fator_balanceamento(h2, no)
    IN  IF balanceamento > 1 THEN
            IF fator_balanceamento(h2, h2[no].esquerda) >= 0 THEN rotacao_direita(h2, no)
            ELSE DuplaDireita(h2, no)
        ELSE IF balanceamento < -1 THEN
            IF fator_balanceamento(h2, h2[no].direita) <= 0 THEN rotacao_esquerda(h2, no)
            ELSE DuplaEsquerda(h2, no)
        ELSE Ret(h2, no)

RECURSIVE _remove(_, _, _, _)
_remove(h, no, chave, r0) ==
    IF no = NULL THEN Ret(h, no)
    ELSE IF chave < h[no].chave THEN
        LET sub == _remove(h, h[no].esquerda, chave, r0)
        IN  IF sub.e THEN sub
            ELSE RemoveRebalanceia([sub.h EXCEPT ![no].esquerda = sub.r], no)
    ELSE IF chave > h[no].chave THEN
        LET sub == _remove(h, h[no].direita, chave, r0)
        IN  IF sub.e THEN sub
            ELSE RemoveRebalanceia([sub.h EXCEPT ![no].direita = sub.r], no)
    ELSE IF h[no].esquerda = NULL THEN Ret(h, h[no].direita)
    ELSE IF h[no].direita = NULL THEN Ret(h, h[no].esquerda)
    ELSE
        LET temp == __sucessor(h, r0, h[no].direita)
        IN  IF temp = NULL THEN Raise(h, "_remove")
            ELSE LET h1 == [h EXCEPT ![no].chave = h[temp].chave]
                     sub == _remove(h1, h1[no].direita, h1[temp].chave, r0)
                 IN  IF sub.e THEN sub
                     ELSE RemoveRebalanceia([sub.h EXCEPT ![no].direita = sub.r], no)

remove(chave) ==
    /\ ~erro
    /\ LET res == _remove(heap, raiz, chave, raiz)
           nova_raiz == IF res.e THEN raiz ELSE res.r
       IN  /\ Resultado(res.h, nova_raiz)
           /\ erro' = res.e
           /\ excecao' = res.onde
    /\ op' = "remove"
    /\ arg' = chave
    /\ ret' = None
    /\ presentes' = presentes \ {chave}
    /\ UNCHANGED <<contador, resultado, limite>>

RECURSIVE _buscar(_, _, _)
_buscar(h, no, elemento) ==
    IF no = NULL THEN no
    ELSE IF h[no].chave = elemento THEN no
    ELSE IF elemento < h[no].chave THEN _buscar(h, h[no].esquerda, elemento)
    ELSE _buscar(h, h[no].direita, elemento)

(* buscar descending with self.raiz as its cursor *)
buscar_com_cursor(elemento) ==
    /\ ~erro
    /\ op' = "buscar"
    /\ arg' = elemento
    /\ ret' = _buscar(heap, raiz, elemento)
    /\ raiz' = _buscar(heap, raiz, elemento)
    /\ antes' = Foto
    /\ UNCHANGED <<heap, contador, resultado, erro, excecao, presentes, limite>>

buscar(elemento) ==
    /\ ~erro
    /\ op' = "buscar"
    /\ arg' = elemento
    /\ ret' = _buscar(heap, raiz, elemento)
    /\ antes' = Foto
    /\ UNCHANGED <<heap, raiz, contador, resultado, erro, excecao, presentes, limite>>

(* st is the pair of attributes self.contador, self.resultado *)
RECURSIVE _k_esimo_maior(_, _, _, _)
_k_esimo_maior(h, no, k, st) ==
    IF no = NULL THEN st
    ELSE IF st.contador >= k THEN st
    ELSE LET s1 == _k_esimo_maior(h, h[no].direita, k, st)
         IN  IF s1.contador < k THEN
                 LET s2 == [s1 EXCEPT !.contador = @ + 1]
                 IN  IF s2.contador = k THEN [s2 EXCEPT !.resultado = h[no].chave]
                     ELSE _k_esimo_maior(h, h[no].esquerda, k, s2)
             ELSE s1

(* k_esimo_maior without lines 400-401: the traversal starts from what an   *)
(* earlier call left in the attributes                                     *)
KEsimoEstadoSemReinicio(h, r0, k, c, r) ==
    _k_esimo_maior(h, r0, k, [contador |-> c, resultado |-> r])

(* the attributes after k_esimo_maior(k), from their values c, r before it *)
KEsimoEstado(h, r0, k, c, r) ==
    _k_esimo_maior(h, r0, k, [contador |-> 0, resultado |-> None])

k_esimo_maior(k) ==
    /\ ~erro
    /\ LET st == KEsimoEstado(heap, raiz, k, contador, resultado)
       IN  /\ contador' = st.contador
           /\ resultado' = st.resultado
           /\ ret' = st.resultado
    /\ op' = "k_esimo_maior"
    /\ arg' = k
    /\ antes' = Foto
    /\ UNCHANGED <<heap, raiz, erro, excecao, presentes, limite>>

RECURSIVE _exibe_pre_ordem(_, _)
_exibe_pre_ordem(h, no) ==
    IF no = NULL THEN ""
    ELSE "(" \o ToString(h[no].chave)
         \o (IF h[no].esquerda /= NULL THEN " " \o _exibe_pre_ordem(h, h[no].esquerda) ELSE "")
         \o (IF h[no].direita /= NULL THEN " " \o _exibe_pre_ordem(h, h[no].direita) ELSE "")
         \o ")"

exibe_pre_ordem ==
    /\ ~erro
    /\ op' = "exibe_pre_ordem"
    /\ arg' = 0
    /\ ret' = _exibe_pre_ordem(heap, raiz)
    /\ antes' = Foto
    /\ UNCHANGED <<heap, raiz, contador, resultado, erro, excecao, presentes, limite>>

vazia ==
    /\ ~erro
    /\ op' = "vazia"
    /\ arg' = 0
    /\ ret' = (raiz = NULL)
    /\ antes' = Foto
    /\ UNCHANGED <<heap, raiz, contador, resultado, erro, excecao, presentes, limite>>

Vazio ==
    /\ heap = [n \in Nodes |-> Livre]
    /\ raiz = NULL
    /\ contador = 0
    /\ resultado = None
    /\ erro = FALSE
    /\ excecao = ""
    /\ op = "init"
    /\ arg = 0
    /\ ret = None
    /\ antes = [raiz |-> NULL, heap |-> [n \in Nodes |-> Livre]]
    /\ presentes = {}

Init == Vazio /\ limite = MaxNodes

InitFundo == Vazio /\ limite = MaxNodesFundo

InitK == Vazio /\ limite = MaxNodesK

InitAlt == Vazio /\ limite = MaxNodesAlt

InitRot == Vazio /\ limite = MaxNodesRot

InitDist == Vazio /\ limite = MaxNodesDist

InitRem == Vazio /\ limite = MaxNodesRem

Next ==
    \/ \E chave \in Keys : insere(chave)
    \/ \E chave \in Keys : remove(chave)
    \/ \E elemento \in Keys : buscar(elemento)
    \/ \E k \in KArgs : k_esimo_maior(k)
    \/ exibe_pre_ordem
    \/ vazia

Spec == Init /\ [][Next]_vars

(* the mutating calls alone *)
NextMut ==
    \/ \E chave \in Keys : insere(chave)
    \/ \E chave \in Keys : remove(chave)

SpecMut == Init /\ [][NextMut]_vars

(* the mutating calls alone, on trees of up to MaxNodesFundo nodes *)
NextFundo ==
    \/ \E chave \in Keys : insere(chave)
    \/ \E chave \in Keys : remove(chave)

SpecFundo == InitFundo /\ [][NextFundo]_vars

(* the mutating calls and the search *)
NextBusca ==
    \/ \E chave \in Keys : insere(chave)
    \/ \E chave \in Keys : remove(chave)
    \/ \E elemento \in Keys : buscar(elemento)

SpecBusca == Init /\ [][NextBusca]_vars

(* the mutating calls and the order statistic, on trees of up to MaxNodesK *)
(* nodes with keys up to MaxKeyK                                           *)
NextK ==
    \/ \E chave \in KeysK : insere(chave)
    \/ \E chave \in KeysK : remove(chave)
    \/ \E k \in KArgsK : k_esimo_maior(k)

SpecK == InitK /\ [][NextK]_vars

(* insertions alone, on trees of up to MaxNodesAlt nodes with keys up to    *)
(* MaxKeyAlt                                                               *)
NextAlt == \E chave \in KeysAlt : insere(chave)

SpecAlt == InitAlt /\ [][NextAlt]_vars

(* the mutating calls and the two queries, on trees of up to MaxNodesK     *)
(* nodes with keys up to MaxKeyK                                           *)
NextConsulta ==
    \/ \E chave \in KeysK : insere(chave)
    \/ \E chave \in KeysK : remove(chave)
    \/ \E elemento \in KeysK : buscar(elemento)
    \/ \E k \in KArgsK : k_esimo_maior(k)

SpecConsulta == InitK /\ [][NextConsulta]_vars

(* insertions alone, each of a key that was not inserted before *)
NextDist == \E chave \in KeysDist \ presentes : insere(chave)

SpecDist == InitDist /\ [][NextDist]_vars

(* insertions of keys the tree does not hold, and removals, on trees of up *)
(* to MaxNodesRem nodes with keys up to MaxKeyRem                          *)
NextDistRemove ==
    \/ \E chave \in KeysRem \ {heap[n].chave : n \in Alcance(heap, raiz)} : insere(chave)
    \/ \E chave \in KeysRem : remove(chave)

SpecDistRemove == InitRem /\ [][NextDistRemove]_vars

(* trees of up to MaxNodesRot nodes with keys up to MaxKeyRot, built by     *)
(* insertions, and the two rotations called on any of their nodes           *)
NextRot ==
    \/ \E chave \in KeysRot : insere(chave)
    \/ \E no \in Nodes : chama_rotacao_direita(no)
    \/ \E no \in Nodes : chama_rotacao_esquerda(no)

SpecRot == InitRot /\ [][NextRot]_vars

(***************************************************************************)
(* Properties                                                              *)
(***************************************************************************)

(* keys of the tree at no, left subtree first, then the node, then right *)
RECURSIVE EmOrdem(_, _)
EmOrdem(h, no) ==
    IF no = NULL THEN <<>>
    ELSE EmOrdem(h, h[no].esquerda) \o <<h[no].chave>> \o EmOrdem(h, h[no].direita)

NaoDecrescente(s) == \A i \in 1..(Len(s) - 1) : s[i] <= s[i + 1]

Balanceada(h, r) ==
    \A n \in Alcance(h, r) :
        /\ altura(h, h[n].esquerda) - altura(h, h[n].direita) >= -1
        /\ altura(h, h[n].esquerda) - altura(h, h[n].direita) <= 1

(* the nodes of the tree at r that store key x *)
NosCom(h, r, x) == {n \in Alcance(h, r) : h[n].chave = x}

Ocorrencias(h, r, x) == Cardinality(NosCom(h, r, x))

NumNos(h, r) == Cardinality(Alcance(h, r))

(* C1: after any sequence of insere and remove calls that returned, the    *)
(* in-order traversal of the tree is a non-decreasing sequence of keys.    *)
C1_EmOrdemNaoDecrescente == ~erro => NaoDecrescente(EmOrdem(heap, raiz))

(* C2: after any sequence of insere and remove calls that returned, every  *)
(* node has -1 <= altura(esquerda) - altura(direita) <= 1.                 *)
C2_Balanceada == ~erro => Balanceada(heap, raiz)

(* C3: a key inserted and not removed since is found by buscar: the call  *)
(* returns a node whose chave is that key.                                 *)
C3_BuscaEncontra ==
    (op = "buscar" /\ arg \in presentes) => (ret /= NULL /\ heap[ret].chave = arg)

(* C4: when x is stored in exactly one node and remove(x) has returned,    *)
(* buscar(x) returns None.                                                 *)
C4_RemoveDepoisBusca ==
    (op = "remove" /\ ~erro /\ Ocorrencias(antes.heap, antes.raiz, arg) = 1)
        => _buscar(heap, raiz, arg) = NULL

(* the node of the tree before the call that stores the key of the call *)
NoCasado == CHOOSE n \in NosCom(antes.heap, antes.raiz, arg) : TRUE

DoisFilhos(h, n) == h[n].esquerda /= NULL /\ h[n].direita /= NULL

(* nodes of the tree before the call that the tree no longer has *)
NosRetirados == Alcance(antes.heap, antes.raiz) \ Alcance(heap, raiz)

(* C5: when x is stored in exactly one node, remove(x) takes exactly one   *)
(* node from the tree; a matched node with two children stays in the tree  *)
(* with another key and the node taken is in its right subtree.            *)
C5_RemoveTiraUmNo ==
    (op = "remove" /\ ~erro /\ Ocorrencias(antes.heap, antes.raiz, arg) = 1)
        => /\ NumNos(heap, raiz) = NumNos(antes.heap, antes.raiz) - 1
           /\ DoisFilhos(antes.heap, NoCasado)
                => /\ NoCasado \in Alcance(heap, raiz)
                   /\ heap[NoCasado].chave /= arg
                   /\ NosRetirados \subseteq Alcance(antes.heap, antes.heap[NoCasado].direita)

(* nodes, keys and links of the tree are what they were before the call *)
ArvoreIntacta ==
    /\ raiz = antes.raiz
    /\ Alcance(heap, raiz) = Alcance(antes.heap, antes.raiz)
    /\ \A n \in Alcance(heap, raiz) :
        /\ heap[n].chave = antes.heap[n].chave
        /\ heap[n].esquerda = antes.heap[n].esquerda
        /\ heap[n].direita = antes.heap[n].direita

(* C6: remove(x) of a key x not stored in the tree leaves the tree as it   *)
(* was: same nodes, keys and links, and the same exibe_pre_ordem() text.   *)
C6_RemoveAusenteIntacta ==
    (op = "remove" /\ ~erro /\ Ocorrencias(antes.heap, antes.raiz, arg) = 0)
        => /\ ArvoreIntacta
           /\ _exibe_pre_ordem(heap, raiz) = _exibe_pre_ordem(antes.heap, antes.raiz)

(* the k-th largest of the keys stored in the tree, 1 <= k <= number of nodes *)
KesimaMaiorChave(h, r, k) ==
    CHOOSE v \in Keys :
        /\ Cardinality({n \in Alcance(h, r) : h[n].chave > v}) < k
        /\ Cardinality({n \in Alcance(h, r) : h[n].chave >= v}) >= k

(* C7: k_esimo_maior(k), 1 <= k <= n, is the k-th key of the stored keys   *)
(* sorted in descending order.                                             *)
C7_KEsimoOrdenado ==
    (op = "k_esimo_maior" /\ arg >= 1 /\ arg <= NumNos(heap, raiz))
        => ret = KesimaMaiorChave(heap, raiz, arg)

(* C8: k_esimo_maior(k) with k < 1 or k > n returns None and does not      *)
(* raise, whatever an earlier k_esimo_maior call left in the attributes.   *)
C8_ForaDoIntervalo ==
    (op = "k_esimo_maior" /\ (arg < 1 \/ arg > NumNos(heap, raiz)))
        => (ret = None /\ resultado = None /\ ~erro)

(* a call with k beyond the number of nodes of a tree of two nodes or more *)
C8_Witness ==
    /\ op = "k_esimo_maior"
    /\ NumNos(heap, raiz) >= 2
    /\ arg > NumNos(heap, raiz)
    /\ contador = NumNos(heap, raiz)
    /\ ret = None

(* C9: every insere(key) call returns, with exactly one node more in the   *)
(* tree and one more occurrence of key among the stored keys.              *)
C9_InsereUmNo ==
    op = "insere"
        => /\ ~erro
           /\ NumNos(heap, raiz) = NumNos(antes.heap, antes.raiz) + 1
           /\ \A x \in Keys :
                Ocorrencias(heap, raiz, x) =
                    Ocorrencias(antes.heap, antes.raiz, x) + (IF x = arg THEN 1 ELSE 0)

(* C10: every call of a public operation returns normally, without an      *)
(* exception.                                                              *)
C10_SemExcecao == ~erro

(* keys stored in the tree at no *)
Chaves(h, no) == {h[n].chave : n \in Alcance(h, no)}

(* search-tree order with ties to the right: at every node the keys of the *)
(* left subtree are smaller and the keys of the right subtree are not      *)
OrdemABB(h, r) ==
    \A n \in Alcance(h, r) :
        /\ \A k \in Chaves(h, h[n].esquerda) : k < h[n].chave
        /\ \A k \in Chaves(h, h[n].direita) : k >= h[n].chave

(* every cached height is the height of its node *)
AlturasCorretas(h, r) ==
    \A n \in Alcance(h, r) :
        h[n].altura_atributo = 1 + Max(altura(h, h[n].esquerda), altura(h, h[n].direita))

(* C11: when an insere or remove call ends, returning or aborting, the     *)
(* order, balance and cached-height invariants all hold on the tree, or    *)
(* the tree is what it was before the call.                                *)
C11_TudoOuNada ==
    op \in {"insere", "remove"}
        => \/ /\ OrdemABB(heap, raiz)
              /\ Balanceada(heap, raiz)
              /\ AlturasCorretas(heap, raiz)
           \/ ArvoreIntacta

(* C13: after every insere or remove call that returned, at every node the *)
(* keys of the left subtree are smaller than the node's key and the keys   *)
(* of the right subtree are greater or equal.                              *)
C13_OrdemABB ==
    (op \in {"insere", "remove"} /\ ~erro) => OrdemABB(heap, raiz)

(* the node the descent of remove(arg) matches in the tree before the call *)
NoAlvo == _buscar(antes.heap, antes.raiz, arg)

(* C14: when remove(key) matches a node with both children, the key left   *)
(* in that node is the minimum key of its right subtree and the node taken *)
(* from the tree lies in that right subtree.                               *)
C14_ChaveDoMinimo ==
    (/\ op = "remove"
     /\ ~erro
     /\ NoAlvo /= NULL
     /\ DoisFilhos(antes.heap, NoAlvo))
        => /\ NoAlvo \in Alcance(heap, raiz)
           /\ heap[NoAlvo].chave =
                antes.heap[__minimo(antes.heap, antes.heap[NoAlvo].direita)].chave
           /\ NosRetirados /= {}
           /\ NosRetirados \subseteq Alcance(antes.heap, antes.heap[NoAlvo].direita)

(* C16: after every insere or remove call that returned, every cached      *)
(* height is 1 + max of the heights of the children, an absent child       *)
(* counting -1; a leaf just inserted has cached height 0.                  *)
C16_AlturaEmCache ==
    (op \in {"insere", "remove"} /\ ~erro) => AlturasCorretas(heap, raiz)

(* the largest integer not above 1.44 * log2(n+2) - 1, for n = 1..12:      *)
(* 1.28, 1.88, 2.34, 2.72, 3.04, 3.32, 3.56, 3.78, 3.98, 4.16, 4.33, 4.48   *)
LimiteAltura == <<1, 1, 2, 2, 3, 3, 3, 3, 3, 4, 4, 4>>

(* C12: a tree of n >= 1 nodes reached by insere and remove calls has      *)
(* altura(raiz) <= 1.44 * log2(n+2) - 1, that is 1,1,2,2,3,3,3 for         *)
(* n = 1..7.                                                               *)
C12_AlturaLimitada ==
    (~erro /\ raiz /= NULL)
        => altura(heap, raiz) <= LimiteAltura[NumNos(heap, raiz)]

(* C15: in every insere and remove call, rotacao_direita is called on a    *)
(* node with a left child and rotacao_esquerda on a node with a right      *)
(* child: no call ends in a rotation that lacks its child.                 *)
C15_RotacaoComFilho ==
    op \in {"insere", "remove"} => excecao \notin {"rotacao_direita", "rotacao_esquerda"}

(* C17: rotacao_esquerda(r) on a node r with right child p returns p with  *)
(* p.esquerda = r and r.direita = the former p.esquerda, and the subtree   *)
(* keeps its nodes and its in-order key sequence; rotacao_direita(r) with  *)
(* left child p returns p with p.direita = r and r.esquerda = the former   *)
(* p.direita, likewise.                                                    *)
C17_Rotacoes ==
    /\ (op = "rotacao_esquerda" /\ antes.heap[arg].direita /= NULL) =>
          LET p == antes.heap[arg].direita
          IN  /\ ~erro
              /\ ret = p
              /\ heap[p].esquerda = arg
              /\ heap[arg].direita = antes.heap[p].esquerda
              /\ Alcance(heap, p) = Alcance(antes.heap, arg)
              /\ EmOrdem(heap, p) = EmOrdem(antes.heap, arg)
    /\ (op = "rotacao_direita" /\ antes.heap[arg].esquerda /= NULL) =>
          LET p == antes.heap[arg].esquerda
          IN  /\ ~erro
              /\ ret = p
              /\ heap[p].direita = arg
              /\ heap[arg].esquerda = antes.heap[p].direita
              /\ Alcance(heap, p) = Alcance(antes.heap, arg)
              /\ EmOrdem(heap, p) = EmOrdem(antes.heap, arg)

(* a left rotation that moved a subtree from the pivot to the old root, on *)
(* a subtree below the root of the tree                                    *)
C17_Witness ==
    /\ op = "rotacao_esquerda"
    /\ ~erro
    /\ arg /= antes.raiz
    /\ antes.heap[antes.heap[arg].direita].esquerda /= NULL
    /\ heap[arg].direita /= NULL

(* C18: buscar and k_esimo_maior leave the tree as it was: the same root,  *)
(* the same nodes, and in every node the same key and the same links.      *)
C18_ConsultasNaoAlteram ==
    op \in {"buscar", "k_esimo_maior"}
        => /\ raiz = antes.raiz
           /\ Alcance(heap, raiz) = Alcance(antes.heap, antes.raiz)
           /\ \A n \in Alcance(antes.heap, antes.raiz) :
                 /\ heap[n].chave = antes.heap[n].chave
                 /\ heap[n].esquerda = antes.heap[n].esquerda
                 /\ heap[n].direita = antes.heap[n].direita

(* a search that found its key below the root *)
C18_Witness ==
    /\ op = "buscar"
    /\ ret /= NULL
    /\ ret /= raiz
    /\ NumNos(heap, raiz) = MaxNodesK

(* C19: when only insere is called, on an empty tree and with pairwise     *)
(* distinct keys, every call returns and leaves a tree in search-tree      *)
(* order (smaller keys left, the others right), balanced at every node,    *)
(* that holds the inserted keys and no other.                              *)
C19_InsercoesDistintas ==
    op = "insere"
        => /\ ~erro
           /\ OrdemABB(heap, raiz)
           /\ Balanceada(heap, raiz)
           /\ Chaves(heap, raiz) = presentes
           /\ NumNos(heap, raiz) = Cardinality(presentes)

(* an insertion whose double rotation brought the new key to the root *)
C19_Witness ==
    /\ op = "insere"
    /\ ~erro
    /\ NumNos(heap, raiz) >= 3
    /\ raiz /= antes.raiz
    /\ heap[raiz].chave = arg

(* the tree before the call holds pairwise distinct keys in search-tree    *)
(* order, is balanced, and holds arg in a node with at most one child      *)
RemoveSimples ==
    /\ op = "remove"
    /\ NumNos(antes.heap, antes.raiz) = Cardinality(Chaves(antes.heap, antes.raiz))
    /\ OrdemABB(antes.heap, antes.raiz)
    /\ Balanceada(antes.heap, antes.raiz)
    /\ NoAlvo /= NULL
    /\ ~DoisFilhos(antes.heap, NoAlvo)

(* C20: on a balanced tree of pairwise distinct keys in search-tree order, *)
(* remove(x) of a key x held in a node with at most one child returns, and *)
(* the tree then holds the old keys without x, in search-tree order and    *)
(* balanced at every node.                                                 *)
C20_RemoveSimples ==
    RemoveSimples
        => /\ ~erro
           /\ Chaves(heap, raiz) = Chaves(antes.heap, antes.raiz) \ {arg}
           /\ NumNos(heap, raiz) = NumNos(antes.heap, antes.raiz) - 1
           /\ OrdemABB(heap, raiz)
           /\ Balanceada(heap, raiz)

(* such a removal, of a node other than the root, after which a rotation   *)
(* changed the root                                                        *)
C20_Witness ==
    /\ RemoveSimples
    /\ ~erro
    /\ NoAlvo /= antes.raiz
    /\ raiz /= antes.raiz

====
